---- MODULE Spec2Model ----
(***************************************************************************)
(* A model of build-spec.ts: the script that turns the markdown reference  *)
(* of the IPFS RPC API into an OpenAPI document.                           *)
(*                                                                         *)
(* Representation.  A JavaScript string is a sequence of symbols (one      *)
(* symbol per column); a symbol is a TLA+ string.  A JavaScript value of   *)
(* type `unknown` is a tagged record (JsVal).  A function that may throw   *)
(* returns a record with an `ok` flag and the error's message kind.        *)
(***************************************************************************)
EXTENDS Integers, Sequences, FiniteSets, TLC

VARIABLES
    markdownText,            \* the source text, as a sequence of lines
    markdownAST,             \* the top-level nodes of the parsed text
    flatAST,                 \* endpointsMarkdownFlatAST: nodes after the start header
    idx,                     \* position of the segmentation loop in flatAST
    endpointsMarkdown,       \* insertion-ordered map path -> nodes
    currentEndpointPath,     \* JsVal: undefined or the current path
    currentEndpointContent,  \* nodes collected for the current endpoint
    endpointData,            \* insertion-ordered map path -> EndpointData
    pc,                      \* position of the script
    error,                   \* kind of the uncaught error, "" when none
    output,                  \* the written file: [written, paths]
    input,                   \* argument of the pure function under check
    result                   \* its result

vars == <<markdownText, markdownAST, flatAST, idx, endpointsMarkdown, currentEndpointPath,
          currentEndpointContent, endpointData, pc, error, output, input, result>>

(***************************************************************************)
(* Bounds of the model.                                                    *)
(***************************************************************************)
MaxParams == 4
MaxNodes == 3
MaxEndpoints == 2
MaxLines == 3
MaxIntro == 4
MaxResponseNodes == 2
MaxHeadings == 4

(***************************************************************************)
(* Sequence helpers.                                                       *)
(***************************************************************************)
Range(s) == {s[i] : i \in 1..Len(s)}

SeqsUpTo(S, n) == UNION {[1..k -> S] : k \in 0..n}

\* Array.prototype.slice(from, to) with 0-based, end-exclusive, clamped indices.
Slice(s, from, to) ==
    LET f == IF from < 0 THEN 0 ELSE from
        t == IF to > Len(s) THEN Len(s) ELSE to
    IN  IF t <= f THEN <<>> ELSE SubSeq(s, f + 1, t)

\* Array.prototype.findIndex / indexOf, given for every element whether it passes
\* the test: 0-based index of the first that does, -1 if none.
RECURSIVE FindFrom(_, _)
FindFrom(hits, i) ==
    IF i > Len(hits) THEN -1
    ELSE IF hits[i] THEN i - 1
    ELSE FindFrom(hits, i + 1)

FindIndex(hits) == FindFrom(hits, 1)

\* Array.prototype.join on a sequence of strings.
RECURSIVE Join(_, _)
Join(parts, sep) ==
    IF Len(parts) = 0 THEN <<>>
    ELSE IF Len(parts) = 1 THEN parts[1]
    ELSE parts[1] \o sep \o Join(Tail(parts), sep)

(***************************************************************************)
(* JavaScript values of type `unknown`.                                    *)
(***************************************************************************)
JsVal(t, s, b, n, a, l) == [t |-> t, s |-> s, b |-> b, n |-> n, a |-> a, l |-> l]

Undef == JsVal("undefined", <<>>, FALSE, 0, <<>>, <<>>)
Str(s) == JsVal("string", s, FALSE, 0, <<>>, <<>>)
Bool(b) == JsVal("boolean", <<>>, b, 0, <<>>, <<>>)
Num(n) == JsVal("number", <<>>, FALSE, n, <<>>, <<>>)
NaN == JsVal("NaN", <<>>, FALSE, 0, <<>>, <<>>)
StrArray(a) == JsVal("array", <<>>, FALSE, 0, a, <<>>)
ValList(l) == JsVal("list", <<>>, FALSE, 0, <<>>, l)

\* JavaScript truthiness, as used by `if (x)`, `x ? a : b` and Array.some.
Truthy(v) ==
    CASE v.t = "undefined" -> FALSE
      [] v.t = "string" -> Len(v.s) > 0
      [] v.t = "boolean" -> v.b
      [] v.t = "number" -> v.n # 0
      [] v.t = "NaN" -> FALSE
      [] OTHER -> TRUE

(***************************************************************************)
(* parseInt(value, 10): leading white space, an optional sign, then the    *)
(* longest run of decimal digits; NaN when there is no digit.              *)
(***************************************************************************)
Digits == <<"0", "1", "2", "3", "4", "5", "6", "7", "8", "9">>

IsDigit(c) == \E d \in 1..10 : Digits[d] = c

DigitVal(c) == (CHOOSE d \in 1..10 : Digits[d] = c) - 1

RECURSIVE SkipSpace(_)
SkipSpace(s) ==
    IF Len(s) > 0 /\ s[1] \in {" ", "\n"} THEN SkipSpace(Tail(s)) ELSE s

RECURSIVE DigitRun(_, _)
DigitRun(s, acc) ==
    IF Len(s) > 0 /\ IsDigit(s[1])
    THEN DigitRun(Tail(s), 10 * acc + DigitVal(s[1]))
    ELSE acc

ParseInt(str) ==
    LET s == SkipSpace(str)
        neg == Len(s) > 0 /\ s[1] = "-"
        body == IF Len(s) > 0 /\ s[1] \in {"-", "+"} THEN Tail(s) ELSE s
    IN  IF Len(body) = 0 \/ ~IsDigit(body[1]) THEN NaN
        ELSE Num(IF neg THEN 0 - DigitRun(body, 0) ELSE DigitRun(body, 0))

\* String.prototype.split(/[, ]/): cut at every comma and every space.
RECURSIVE SplitFrom(_, _, _)
SplitFrom(s, cur, acc) ==
    IF Len(s) = 0 THEN Append(acc, cur)
    ELSE IF s[1] \in {",", " "} THEN SplitFrom(Tail(s), <<>>, Append(acc, cur))
    ELSE SplitFrom(Tail(s), Append(cur, s[1]), acc)

SplitCommaSpace(s) == SplitFrom(s, <<>>, <<>>)

(***************************************************************************)
(* Parameter types.                                                        *)
(***************************************************************************)
IpfsParamTypes == {"string", "bool", "int", "uint", "int64", "array", "arg-series"}

\* A check that lets every type token through.
isIpfsParamType_Any(type) == type = type

isIpfsParamType(type) == type \in IpfsParamTypes

IntTypes == {"int", "uint", "int64"}

S_true == <<"t", "r", "u", "e">>

\* The array branch evaluates the split and returns nothing: the function
\* falls off its end, which yields undefined.
parseValue(type, value) ==
    IF value.t = "undefined" THEN value
    ELSE IF type = "string" THEN value
    ELSE IF type = "bool" THEN Bool(value.s = S_true)
    ELSE IF type \in IntTypes THEN ParseInt(value.s)
    ELSE Undef

\* The schema mapping; `throws` when the lookup table has no entry.
SchemaOf(ok, type, items) == [ok |-> ok, type |-> type, items |-> items]

getJsonSchemaForIpfsType(type) ==
    IF type \in {"array", "arg-series"} THEN SchemaOf(TRUE, "array", "string")
    ELSE IF type = "bool" THEN SchemaOf(TRUE, "boolean", "")
    ELSE IF type = "string" THEN SchemaOf(TRUE, "string", "")
    ELSE IF type \in IntTypes THEN SchemaOf(TRUE, "integer", "")
    ELSE SchemaOf(FALSE, "", "")

(***************************************************************************)
(* Markdown nodes.  `ctype` and `value` are the type and value of          *)
(* children[0] (for a code node, `value` is the node's own value);         *)
(* `items` are the children of a list.                                     *)
(***************************************************************************)
Point(line, column) == [line |-> line, column |-> column]

Position(start, end) == [start |-> start, end |-> end]

NoPosition == Position(Point(0, 0), Point(0, 0))

Node(type, depth, ctype, value, items) ==
    [type |-> type, depth |-> depth, ctype |-> ctype, value |-> value,
     items |-> items, position |-> NoPosition]

NoNode == Node("undefined", 0, "", <<>>, <<>>)

(***************************************************************************)
(* A list item of the Arguments list.  `childTypes` are the types of the   *)
(* item's children; `nameType` and `name` are argParts[0]; `partTypes`     *)
(* are the types met while joining the description parts ("strong/x" is a  *)
(* strong part with a child of type x).  `def` is the joined, trimmed      *)
(* definition string in structured form:                                   *)
(*    "[" type "]: " description (" Default: " d ".")* (" Required: " r ".")?  *)
(* with `bracketed` false when the string does not begin "[...]: ".        *)
(***************************************************************************)
Definition(bracketed, type, description, defaults, required) ==
    [bracketed |-> bracketed, type |-> type, description |-> description,
     defaults |-> defaults, required |-> required]

ListItem(childTypes, nameType, name, partTypes, def) ==
    [childTypes |-> childTypes, nameType |-> nameType, name |-> name,
     partTypes |-> partTypes, def |-> def]

\* Tokens that \w+ does not match.
NonWords == {"", "arg-series", "two words"}

IsWord(tok) == tok \notin NonWords

\* /^\[(\w+)\]: (.*?\.?)(?:\sDefault: (.*?)\.)*(?:\sRequired: (\w+)\.)?$/s
\* A repeated group captures its last iteration.
MatchDefinition(def) ==
    IF ~def.bracketed \/ ~IsWord(def.type)
    THEN [matched |-> FALSE, type |-> "", description |-> <<>>,
          defaultValue |-> Undef, isRequired |-> Undef]
    ELSE [matched |-> TRUE, type |-> def.type, description |-> def.description,
          defaultValue |-> IF Len(def.defaults) = 0 THEN Undef
                           ELSE Str(def.defaults[Len(def.defaults)]),
          isRequired |-> IF Len(def.required) = 0 THEN Undef
                         ELSE Str(<<def.required[1]>>)]

\* String.prototype.toLowerCase on the words the descriptions are made of.
ToLowerCase(tok) ==
    CASE tok \in {"Deprecated", "DEPRECATED"} -> "deprecated"
      [] tok \in {"Experimental", "EXPERIMENTAL"} -> "experimental"
      [] OTHER -> tok

Includes(description, word) == \E i \in 1..Len(description) : ToLowerCase(description[i]) = word

WarningOf(description) ==
    IF Includes(description, "deprecated") THEN "deprecated"
    ELSE IF Includes(description, "experimental") THEN "experimental"
    ELSE "none"

Param(name, description, type, defaultValue, required, warning) ==
    [name |-> name, description |-> description, type |-> type,
     defaultValue |-> defaultValue, required |-> required, warning |-> warning]

NoParam == Param(<<>>, <<>>, "", Undef, FALSE, "none")

Thrown(err) == [ok |-> FALSE, param |-> NoParam, err |-> err]

\* The body of node.children.map(...) in parseArguments.
ParseItem(item) ==
    LET m == MatchDefinition(item.def) IN
    IF \E i \in 1..Len(item.childTypes) : item.childTypes[i] # "paragraph"
    THEN Thrown("Unexpected types for arg line")
    ELSE IF item.nameType # "inlineCode"
    THEN Thrown("Unexpected type for arg name")
    ELSE IF \E i \in 1..Len(item.partTypes) : item.partTypes[i] \in {"strong/emphasis", "strong/inlineCode"}
    THEN Thrown("Unexpected type for arg strong description part")
    ELSE IF \E i \in 1..Len(item.partTypes) : item.partTypes[i] \notin {"strong/text", "text", "inlineCode"}
    THEN Thrown("Unexpected type for arg description")
    ELSE IF ~m.matched
    THEN Thrown("Unexpected format for arg")
    ELSE IF ~isIpfsParamType(m.type)
    THEN Thrown("Unexpected type for arg")
    ELSE [ok |-> TRUE,
          param |-> Param(item.name, m.description, m.type,
                          parseValue(m.type, m.defaultValue),
                          m.isRequired = Str(<<"yes">>),
                          WarningOf(m.description)),
          err |-> ""]

(***************************************************************************)
(* The merge of duplicate parameter names.                                 *)
(***************************************************************************)
\* Keys of _.groupBy(params, p => p.name), in insertion order.
RECURSIVE GroupNames(_, _)
GroupNames(params, seen) ==
    IF Len(params) = 0 THEN seen
    ELSE IF \E i \in 1..Len(seen) : seen[i] = params[1].name
    THEN GroupNames(Tail(params), seen)
    ELSE GroupNames(Tail(params), Append(seen, params[1].name))

GroupOf(params, name) == SelectSeq(params, LAMBDA p : p.name = name)

\* .filter(g => g.length > 1)
DupeNames(params) ==
    SelectSeq(GroupNames(params, <<>>), LAMBDA n : Len(GroupOf(params, n)) > 1)

CombinedDescription(paramGroup) ==
    Join([i \in 1..Len(paramGroup) |->
            paramGroup[1].name \o <<Digits[i]>> \o <<": ">> \o paramGroup[i].description],
         <<"\n\n">>)

CombinedDefault(paramGroup) ==
    IF \E i \in 1..Len(paramGroup) : Truthy(paramGroup[i].defaultValue)
    THEN ValList([i \in 1..Len(paramGroup) |-> paramGroup[i].defaultValue])
    ELSE Undef

CombinedParam(paramGroup) ==
    Param(paramGroup[1].name,
          CombinedDescription(paramGroup),
          "arg-series",
          CombinedDefault(paramGroup),
          \E i \in 1..Len(paramGroup) : paramGroup[i].required,
          paramGroup[1].warning)

\* A filter that drops the first member of the group only.
RemoveDupes_FirstOnly(params, name) ==
    LET k == FindIndex([i \in 1..Len(params) |-> params[i].name = name])
    IN  SubSeq(params, 1, k) \o SubSeq(params, k + 2, Len(params))

\* params.filter(p => p.name !== combinedParam.name)
RemoveDupes(params, name) == SelectSeq(params, LAMBDA p : p.name # name)

\* A push in place of the splice.
Splice_AtEnd(params, index, item) == Append(params, item)

\* params.splice(index, 0, item), for index >= 0
Splice(params, index, item) ==
    LET k == IF index > Len(params) THEN Len(params) ELSE index
    IN  SubSeq(params, 1, k) \o <<item>> \o SubSeq(params, k + 1, Len(params))

\* One iteration of the forEach over the groups of duplicates.
MergeGroup(params, paramGroup) ==
    LET combinedParam == CombinedParam(paramGroup)
        firstParamIndex == FindIndex([i \in 1..Len(params) |-> params[i] = paramGroup[1]])
    IN  Splice(RemoveDupes(params, combinedParam.name), firstParamIndex, combinedParam)

RECURSIVE MergeAll(_, _, _)
MergeAll(params, groups, k) ==
    IF k > Len(groups) THEN params
    ELSE MergeAll(MergeGroup(params, groups[k]), groups, k + 1)

MergeDuplicates(params) ==
    LET names == DupeNames(params)
        groups == [k \in 1..Len(names) |-> GroupOf(params, names[k])]
    IN  MergeAll(params, groups, 1)

S_NoArguments == <<"This endpoint takes no arguments.">>

ArgsResult(ok, params, err) == [ok |-> ok, params |-> params, err |-> err]

parseArguments(node) ==
    IF node.type = "undefined" THEN ArgsResult(TRUE, <<>>, "")
    ELSE IF node.type = "paragraph"
    THEN IF node.ctype = "text" /\ node.value = S_NoArguments
         THEN ArgsResult(TRUE, <<>>, "")
         ELSE ArgsResult(FALSE, <<>>, "Unexpected argument paragraph")
    ELSE IF node.type # "list"
    THEN ArgsResult(FALSE, <<>>, "Unexpected argument node type")
    ELSE LET parsed == [i \in 1..Len(node.items) |-> ParseItem(node.items[i])]
             bad == FindIndex([i \in 1..Len(parsed) |-> ~parsed[i].ok])
         IN  IF bad # -1 THEN ArgsResult(FALSE, <<>>, parsed[bad + 1].err)
             ELSE ArgsResult(TRUE,
                             MergeDuplicates([i \in 1..Len(parsed) |-> parsed[i].param]),
                             "")

(***************************************************************************)
(* The parameter object of the OpenAPI operation (spec.paths).  A key      *)
(* whose value is undefined is dropped by JSON.stringify.                  *)
(***************************************************************************)
ParameterObject(param) ==
    LET schema == getJsonSchemaForIpfsType(param.type) IN
    [ok |-> schema.ok,
     name |-> param.name,
     in |-> "query",
     description |-> param.description,
     required |-> IF param.required THEN Bool(TRUE) ELSE Undef,
     deprecated |-> IF param.warning = "deprecated" THEN Bool(TRUE) ELSE Undef,
     experimental |-> IF param.warning = "experimental" THEN Bool(TRUE) ELSE Undef,
     explode |-> IF param.type = "arg-series" THEN Bool(TRUE) ELSE Undef,
     schema |-> [type |-> schema.type, items |-> schema.items, default |-> param.defaultValue]]

(***************************************************************************)
(* Argument parsing and parameter emission on their own: parseArguments    *)
(* applied to one node, then the parameters mapped into the operation.     *)
(***************************************************************************)
NoOutput == [written |-> FALSE, paths |-> <<>>]

NoResult == [ok |-> FALSE, params |-> <<>>, err |-> "", objects |-> <<>>]

PipelineIdle ==
    /\ markdownText = <<>>
    /\ markdownAST = <<>>
    /\ flatAST = <<>>
    /\ idx = 0
    /\ endpointsMarkdown = <<>>
    /\ currentEndpointPath = Undef
    /\ currentEndpointContent = <<>>
    /\ endpointData = <<>>
    /\ error = ""
    /\ output = NoOutput

PipelineUnchanged ==
    UNCHANGED <<markdownText, markdownAST, flatAST, idx, endpointsMarkdown, currentEndpointPath,
                currentEndpointContent, endpointData, error, output>>

ArgNames == {<<"arg">>, <<"opt">>}

S_false == <<"f", "a", "l", "s", "e">>

\* The definitions the duplicated parameters are drawn from.
SeriesDefinitions ==
    { Definition(TRUE, "bool", <<"Flag", ".">>, <<>>, <<"no">>),
      Definition(TRUE, "bool", <<"Quiet", ".">>, <<S_false>>, <<>>),
      Definition(TRUE, "string", <<"Deprecated", ".">>, <<<<"x">>>>, <<"yes">>) }

SeriesItems ==
    { ListItem(<<"paragraph">>, "inlineCode", n, <<"text">>, d) :
        n \in ArgNames, d \in SeriesDefinitions }

TypeTokens == IpfsParamTypes \cup {"float", "Bool", "two words"}

DefaultStrings ==
    { S_true, S_false, <<"0">>, <<"1", "2">>, <<"-", "3">>, <<" ", "7">>,
      <<"a", "b", "c">>, <<>>, <<"[", "a", ",", "b", "]">>,
      <<"[", "a", " ", "b", "]">>, <<"[", "]">> }

DefaultGroups ==
    {<<>>} \cup {<<d>> : d \in DefaultStrings} \cup {<<S_true, S_false>>, <<<<"0">>, <<"1", "2">>>>}

SingleDefinitions ==
    { Definition(TRUE, t, <<"Experimental", " ", "option", ".">>, d, r) :
        t \in TypeTokens, d \in DefaultGroups, r \in {<<>>, <<"yes">>, <<"no">>} }

MalformedItems ==
    LET d == Definition(TRUE, "bool", <<"Flag", ".">>, <<>>, <<>>) IN
    { ListItem(<<"paragraph", "list">>, "inlineCode", <<"arg">>, <<"text">>, d),
      ListItem(<<"paragraph">>, "text", <<"arg">>, <<"text">>, d),
      ListItem(<<"paragraph">>, "inlineCode", <<"arg">>, <<"strong/emphasis">>, d),
      ListItem(<<"paragraph">>, "inlineCode", <<"arg">>, <<"text", "link">>, d),
      ListItem(<<"paragraph">>, "inlineCode", <<"arg">>, <<"strong/text", "inlineCode">>,
               Definition(FALSE, "", <<"free", " ", "text">>, <<>>, <<>>)) }

ListNode(items) == Node("list", 0, "listItem", <<>>, items)

ArgumentNodes ==
    { ListNode(items) : items \in SeqsUpTo(SeriesItems, MaxParams) }
    \cup { ListNode(<<ListItem(<<"paragraph">>, "inlineCode", <<"arg">>, <<"text">>, d)>>) :
             d \in SingleDefinitions }
    \cup { ListNode(<<i>>) : i \in MalformedItems }
    \cup { NoNode,
           Node("paragraph", 0, "text", S_NoArguments, <<>>),
           Node("paragraph", 0, "text", <<"See", " ", "below">>, <<>>),
           Node("code", 0, "", <<"{}">>, <<>>) }

InitArgs ==
    /\ PipelineIdle
    /\ pc = "parseArguments"
    /\ input \in ArgumentNodes
    /\ result = NoResult

CallParseArguments ==
    /\ pc = "parseArguments"
    /\ LET r == parseArguments(input) IN
        /\ result' = [ok |-> r.ok, params |-> r.params, err |-> r.err, objects |-> <<>>]
        /\ pc' = IF r.ok THEN "parameters" ELSE "failed"
    /\ UNCHANGED input
    /\ PipelineUnchanged

\* endpoint.parameters.map(param => ({...})) of spec.paths
EmitParameters ==
    /\ pc = "parameters"
    /\ LET objects == [i \in 1..Len(result.params) |-> ParameterObject(result.params[i])] IN
        IF \E i \in 1..Len(objects) : ~objects[i].ok
        THEN /\ result' = [result EXCEPT !.ok = FALSE, !.err = "Could not convert parameter type"]
             /\ pc' = "failed"
        ELSE /\ result' = [result EXCEPT !.objects = objects]
             /\ pc' = "done"
    /\ UNCHANGED input
    /\ PipelineUnchanged

NextArgs == CallParseArguments \/ EmitParameters

SpecArgs == InitArgs /\ [][NextArgs]_vars

(***************************************************************************)
(* Properties of argument parsing (checked under SpecArgs).                *)
(***************************************************************************)
\* The raw parameter list: what node.children.map(...) returned before the merge.
RawParams == [i \in 1..Len(input.items) |-> ParseItem(input.items[i]).param]

Merged == pc \in {"parameters", "done"} /\ input.type = "list"

NamesOf(params) == [i \in 1..Len(params) |-> params[i].name]

Count(params, name) == Cardinality({i \in 1..Len(params) : params[i].name = name})

\* 1-based index of the first entry named `name`.
FirstIndex(params, name) == FindIndex([i \in 1..Len(params) |-> params[i].name = name]) + 1

Duplicated(params) == {n \in Range(NamesOf(params)) : Count(params, n) > 1}

\* C3: after the merge the list holds exactly one entry per distinct name; a list
\* without duplicate names is returned unchanged; the entry that replaces a group
\* of duplicates has type arg-series and is required iff a member of the group is.
C3_MergeResult ==
    Merged =>
        /\ Range(NamesOf(result.params)) = Range(NamesOf(RawParams))
        /\ \A n \in Range(NamesOf(RawParams)) : Count(result.params, n) = 1
        /\ Duplicated(RawParams) = {} => result.params = RawParams
        /\ \A n \in Duplicated(RawParams) :
              LET m == result.params[FirstIndex(result.params, n)] IN
              /\ m.type = "arg-series"
              /\ m.required = (\E i \in 1..Len(RawParams) :
                                  RawParams[i].name = n /\ RawParams[i].required)

C3_Witness ==
    /\ pc = "done"
    /\ input.type = "list"
    /\ Cardinality(Duplicated(RawParams)) = 2
    /\ Len(result.params) = 2
    /\ \E i \in 1..2 : result.params[i].required /\ ~result.params[3 - i].required

\* C4 as stated: every merged parameter sits at the index its name first had
\* in the list before the merge.
C4_OriginalIndex ==
    Merged =>
        \A n \in Duplicated(RawParams) :
            FirstIndex(result.params, n) = FirstIndex(RawParams, n)

\* Entries before position k that repeat an earlier name: the merge removes them.
RemovedBefore(params, k) ==
    Cardinality({j \in 1..(k - 1) : FirstIndex(params, params[j].name) < j})

\* C4 amended: every merged parameter sits at the index its name first had in the
\* list before the merge, less the number of duplicate entries removed in front of
\* it; the names keep the order of their first occurrences and no member of a
\* group remains.
C4_FirstOccurrenceOrder ==
    Merged =>
        /\ NamesOf(result.params) = GroupNames(RawParams, <<>>)
        /\ \A n \in Duplicated(RawParams) :
              /\ FirstIndex(result.params, n) =
                    FirstIndex(RawParams, n) - RemovedBefore(RawParams, FirstIndex(RawParams, n))
              /\ \A i \in 1..Len(result.params) :
                    result.params[i].name = n =>
                        result.params[i] \notin Range(RawParams)

C4_Witness ==
    /\ pc = "done"
    /\ input.type = "list"
    /\ NamesOf(RawParams) = <<(<<"opt">>), (<<"opt">>), (<<"arg">>), (<<"opt">>), (<<"arg">>)>>
          \/ NamesOf(RawParams) = <<(<<"opt">>), (<<"opt">>), (<<"arg">>), (<<"arg">>)>>
    /\ NamesOf(result.params) = <<(<<"opt">>), (<<"arg">>)>>

SchemaPrimitive(type) ==
    CASE type = "bool" -> SchemaOf(TRUE, "boolean", "")
      [] type = "string" -> SchemaOf(TRUE, "string", "")
      [] type \in {"int", "uint", "int64"} -> SchemaOf(TRUE, "integer", "")
      [] type \in {"array", "arg-series"} -> SchemaOf(TRUE, "array", "string")
      [] OTHER -> SchemaOf(FALSE, "", "")

AcceptedTypes == {"string", "bool", "int", "uint", "int64", "array", "arg-series"}

\* C6: every parameter that argument parsing returns has one of the seven types,
\* the schema builder maps it to the primitive of the table and never throws for
\* it, and a list holding a definition with any other type token is fatal.
C6_TypeMappingClosure ==
    /\ pc \in {"parameters", "done"} =>
          \A i \in 1..Len(result.params) :
              /\ result.params[i].type \in AcceptedTypes
              /\ getJsonSchemaForIpfsType(result.params[i].type)
                    = SchemaPrimitive(result.params[i].type)
    /\ pc = "done" =>
          \A i \in 1..Len(result.params) :
              /\ result.objects[i].schema.type = SchemaPrimitive(result.params[i].type).type
              /\ result.objects[i].schema.items = SchemaPrimitive(result.params[i].type).items
    /\ result.err # "Could not convert parameter type"
    /\ (pc # "parseArguments" /\ input.type = "list"
          /\ \E i \in 1..Len(input.items) : input.items[i].def.type \notin AcceptedTypes)
         => pc = "failed"

C6_Witness ==
    /\ pc = "done"
    /\ Len(result.params) = 1
    /\ result.params[1].type = "uint"
    /\ result.objects[1].schema.type = "integer"

\* C9: the parameter that replaces a group of duplicates carries the list of the
\* members' defaults whenever a member had a default, and no default otherwise.
C9_MergedDefault ==
    Merged =>
        \A n \in Duplicated(RawParams) :
            LET m == result.params[FirstIndex(result.params, n)]
                group == GroupOf(RawParams, n)
            IN  m.defaultValue =
                    IF \E i \in 1..Len(group) : group[i].defaultValue # Undef
                    THEN ValList([i \in 1..Len(group) |-> group[i].defaultValue])
                    ELSE Undef

\* The value the default of a parameter of the given type stands for.
ExpectedDefault(type, raw) ==
    CASE type = "string" -> Str(raw)
      [] type = "bool" -> Bool(raw = S_true)
      [] type \in {"int", "uint", "int64"} -> ParseInt(raw)
      [] OTHER -> StrArray(SplitCommaSpace(Slice(raw, 1, Len(raw) - 1)))

\* C10: a parameter whose definition has a "Default:" value gets that value parsed
\* by its type (string: as written; bool: whether it is "true"; integers: base 10;
\* array: the tokens between the brackets), and never an absent defaultValue.
C10_DefaultByType ==
    (pc \in {"parameters", "done"} /\ input.type = "list" /\ Len(input.items) = 1
        /\ Len(input.items[1].def.defaults) > 0)
      => LET def == input.items[1].def
             raw == def.defaults[Len(def.defaults)]
         IN  /\ result.params[1].defaultValue # Undef
             /\ result.params[1].defaultValue = ExpectedDefault(def.type, raw)

(***************************************************************************)
(* getRawMarkdown.  Positions are 1-based; an end point is the first       *)
(* column after the node.                                                  *)
(***************************************************************************)
S_newline == <<"\n">>

\* The single-line case never reaches the slice at the end column.
getRawMarkdown(nodes) ==
    IF Len(nodes) = 0 THEN <<>>
    ELSE LET start == nodes[1].position.start
             end == nodes[Len(nodes)].position.end
             relevantLines == Slice(markdownText, start.line - 1, end.line)
             last == relevantLines[Len(relevantLines)]
         IN  Join(<<Slice(relevantLines[1], start.column - 1, Len(relevantLines[1]))>>
                    \o Slice(relevantLines, 1, Len(relevantLines) - 1)
                    \o (IF Len(relevantLines) > 1
                        THEN <<Slice(last, 0, end.column - 1)>>
                        ELSE <<>>),
                  S_newline)

(***************************************************************************)
(* getRawMarkdown on its own: a text, and a contiguous run of one or two   *)
(* nodes (or none) placed in it.  A node spans at least one column.        *)
(***************************************************************************)
SourceLines == {<<"a", "b", "c">>, <<"d", "e">>, <<>>}

Texts == UNION {[1..k -> SourceLines] : k \in 1..MaxLines}

Points(text) == {Point(l, c) : l \in 1..Len(text), c \in 1..4}

PointsIn(text) == {p \in Points(text) : p.column <= Len(text[p.line]) + 1}

Before(p, q) == p.line < q.line \/ (p.line = q.line /\ p.column < q.column)

Placed(start, end) ==
    [Node("paragraph", 0, "text", <<>>, <<>>) EXCEPT !.position = Position(start, end)]

EndOfLine(text, l) == Point(l, Len(text[l]) + 1)

\* One node from p to q, or, when p and q lie on different lines, two nodes: one
\* from p to the end of its line and one from the start of q's line to q.
NodeRuns(text) ==
    LET spans == {pq \in PointsIn(text) \X PointsIn(text) : Before(pq[1], pq[2])} IN
    { <<Placed(pq[1], pq[2])>> : pq \in spans }
    \cup { <<Placed(pq[1], EndOfLine(text, pq[1].line)), Placed(Point(pq[2].line, 1), pq[2])>> :
             pq \in {x \in spans : x[1].line < x[2].line} }
    \cup {<<>>}

InitRaw ==
    /\ markdownText \in Texts
    /\ input \in NodeRuns(markdownText)
    /\ pc = "getRawMarkdown"
    /\ result = <<>>
    /\ markdownAST = <<>>
    /\ flatAST = <<>>
    /\ idx = 0
    /\ endpointsMarkdown = <<>>
    /\ currentEndpointPath = Undef
    /\ currentEndpointContent = <<>>
    /\ endpointData = <<>>
    /\ error = ""
    /\ output = NoOutput

CallGetRawMarkdown ==
    /\ pc = "getRawMarkdown"
    /\ result' = getRawMarkdown(input)
    /\ pc' = "done"
    /\ UNCHANGED <<input, markdownText, markdownAST, flatAST, idx, endpointsMarkdown,
                   currentEndpointPath, currentEndpointContent, endpointData, error, output>>

NextRaw == CallGetRawMarkdown

SpecRaw == InitRaw /\ [][NextRaw]_vars

\* Number of symbols of the text before the point, line ends included.
RECURSIVE Offset(_, _)
Offset(text, p) ==
    IF p.line = 1 THEN p.column - 1
    ELSE Len(text[1]) + 1 + Offset(Tail(text), Point(p.line - 1, p.column))

\* C5: the result is the text from the first node's start to the last node's end,
\* also when both lie on one line; no nodes give the empty string.
C5_VerbatimSlice ==
    pc = "done" =>
        IF Len(input) = 0 THEN result = <<>>
        ELSE LET start == input[1].position.start
                 end == input[Len(input)].position.end
             IN  result = SubSeq(Join(markdownText, S_newline),
                                 Offset(markdownText, start) + 1,
                                 Offset(markdownText, end))

(***************************************************************************)
(* Step 1: segmentation of the nodes after the start header.               *)
(***************************************************************************)
S_RPCCommands == <<"RPC commands">>

S_ApiPrefix == <<"/", "api", "/">>

StartsWith(v, prefix) == Len(v) >= Len(prefix) /\ SubSeq(v, 1, Len(prefix)) = prefix

\* `contentTest` is the outcome of the content test on node.children[0].value.
isHeader(node, level, contentTest) ==
    /\ node.type = "heading"
    /\ node.depth = level
    /\ node.ctype = "text"
    /\ contentTest

IsBoundary(node) == isHeader(node, 2, StartsWith(node.value, S_ApiPrefix))

\* nodes.findIndex(node => isHeader(node, 3, v => v === text))
HeaderIndex(nodes, text) ==
    FindIndex([i \in 1..Len(nodes) |-> isHeader(nodes[i], 3, nodes[i].value = text)])

\* The test of markdownAST.children.findIndex(...) for the start header.
IsStartHeader(child) ==
    /\ child.type = "heading"
    /\ child.depth = 2
    /\ child.ctype = "text"
    /\ child.value = S_RPCCommands

\* obj[key] = value on an object whose keys keep their insertion order.
MapSet(map, key, value) ==
    IF \E i \in 1..Len(map) : map[i].key = key
    THEN [i \in 1..Len(map) |-> IF map[i].key = key THEN [key |-> key, value |-> value] ELSE map[i]]
    ELSE Append(map, [key |-> key, value |-> value])

(***************************************************************************)
(* Step 2: extraction of one endpoint's data from its nodes.               *)
(***************************************************************************)
S_Arguments == <<"Arguments">>
S_RequestBody == <<"Request Body">>
S_Response == <<"Response">>
S_cURLExample == <<"cURL Example">>
S_WarningEnd == <<":::">>
S_Deprecated == <<":::", " ", "warning", " ", "DEPRECATED">>
S_Experimental == <<":::", " ", "warning", " ", "EXPERIMENTAL">>
S_ResponseIntro == <<"On success, the call to this endpoint will return with 200 and the following body:">>
\* (the source writes text/plain between backquotes)
S_TextPlain == <<"This endpoint returns a text/plain response body.">>

WhiteSpace == {" ", "\n", "\t"}

RECURSIVE TrimStart(_)
TrimStart(s) == IF Len(s) > 0 /\ s[1] \in WhiteSpace THEN TrimStart(Tail(s)) ELSE s

RECURSIVE TrimEnd(_)
TrimEnd(s) ==
    IF Len(s) > 0 /\ s[Len(s)] \in WhiteSpace THEN TrimEnd(SubSeq(s, 1, Len(s) - 1)) ELSE s

Trim(s) == TrimEnd(TrimStart(s))

IntroResult(ok, description, warning, err) ==
    [ok |-> ok, description |-> description, warning |-> warning, err |-> err]

\* parseIntroNodes without the test for paragraphs.
parseIntroNodes_AnyNodes(nodes) ==
    LET warningEndIndex ==
            FindIndex([i \in 1..Len(nodes) |->
                         nodes[i].ctype = "text" /\ nodes[i].value = S_WarningEnd])
        warningText == IF nodes[1].ctype = "text" THEN nodes[1].value ELSE <<>>
        description == getRawMarkdown(Slice(nodes, warningEndIndex + 1, Len(nodes)))
    IN  IF warningEndIndex = -1 THEN IntroResult(TRUE, description, "none", "")
        ELSE IF warningText = S_Deprecated
        THEN IntroResult(TRUE, description, "deprecated", "")
        ELSE IF warningText = S_Experimental
        THEN IntroResult(TRUE, description, "experimental", "")
        ELSE IntroResult(FALSE, <<>>, "none", "Unexpected intro warning")

\* A paragraph whose first child is no text node has no `value`: the comparison
\* with either marker fails.
parseIntroNodes(nodes) ==
    IF \E i \in 1..Len(nodes) : nodes[i].type # "paragraph"
    THEN IntroResult(FALSE, <<>>, "none", "Intro nodes are not all paragraphs")
    ELSE LET warningEndIndex ==
                 FindIndex([i \in 1..Len(nodes) |->
                              nodes[i].ctype = "text" /\ nodes[i].value = S_WarningEnd])
             warningText == IF nodes[1].ctype = "text" THEN nodes[1].value ELSE <<>>
             description == getRawMarkdown(Slice(nodes, warningEndIndex + 1, Len(nodes)))
         IN  IF warningEndIndex = -1 THEN IntroResult(TRUE, description, "none", "")
             ELSE IF warningText = S_Deprecated
             THEN IntroResult(TRUE, description, "deprecated", "")
             ELSE IF warningText = S_Experimental
             THEN IntroResult(TRUE, description, "experimental", "")
             ELSE IntroResult(FALSE, <<>>, "none", "Unexpected intro warning")

(***************************************************************************)
(* JSON.parse on the code blocks of the model: an object or an array is a  *)
(* bracketed run of member symbols; the scalars are single symbols.        *)
(***************************************************************************)
JsonMembers == {"\"Hash\":\"string\"", "\"Size\":1", "\"a\"", ","}

JsonScalars == {"12", "0", "\"text\"", "\"\"", "true", "false", "null"}

\* The scalars that a condition takes for false.
JsonFalsy == {"0", "\"\"", "false", "null"}

JsonOf(ok, kind, text) == [ok |-> ok, kind |-> kind, text |-> text]

Bracketed(text, open, close) ==
    /\ Len(text) >= 2
    /\ text[1] = open
    /\ text[Len(text)] = close
    /\ \A i \in 2..(Len(text) - 1) : text[i] \in JsonMembers

JSONParse(text) ==
    IF Bracketed(text, "{", "}") THEN JsonOf(TRUE, "object", text)
    ELSE IF Bracketed(text, "[", "]") THEN JsonOf(TRUE, "array", text)
    ELSE IF Len(text) = 1 /\ text[1] \in JsonScalars THEN JsonOf(TRUE, "scalar", text)
    ELSE JsonOf(FALSE, "", <<>>)

NoExample == JsonOf(TRUE, "undefined", <<>>)

\* endpoint.responseBodyExample ? ... : undefined
JsonTruthy(example) ==
    \/ example.kind \in {"object", "array"}
    \/ example.kind = "scalar" /\ example.text[1] \notin JsonFalsy

ResponseResult(ok, example, err) == [ok |-> ok, example |-> example, err |-> err]

parseResponseInfo(nodes) ==
    IF Len(nodes) # 2
    THEN ResponseResult(FALSE, NoExample, "Unexpected number of response info nodes")
    ELSE IF \/ nodes[1].type # "paragraph"
            \/ nodes[1].ctype # "text"
            \/ nodes[1].value # S_ResponseIntro
    THEN ResponseResult(FALSE, NoExample, "Unexpected response info intro")
    ELSE IF nodes[2].type # "code"
    THEN ResponseResult(FALSE, NoExample, "Unusual response info code block")
    ELSE IF nodes[2].value = S_TextPlain
    THEN ResponseResult(TRUE, NoExample, "")
    ELSE IF JSONParse(nodes[2].value).ok
    THEN ResponseResult(TRUE, JSONParse(nodes[2].value), "")
    ELSE ResponseResult(FALSE, NoExample, "Failed to parse JSON response example")

S_DocsBaseUrl == <<"https://docs.ipfs.tech/reference/kubo/rpc/">>

\* endpoint.slice(1).replace(/\//g, '-')
DocsAnchor(endpoint) ==
    [i \in 1..(Len(endpoint) - 1) |-> IF endpoint[i + 1] = "/" THEN "-" ELSE endpoint[i + 1]]

EndpointData(path, description, warning, parameters, requestBodyDescription, responseBodyExample) ==
    [path |-> path, description |-> description, warning |-> warning,
     parameters |-> parameters, requestBodyDescription |-> requestBodyDescription,
     responseBodyExample |-> responseBodyExample,
     docsUrl |-> S_DocsBaseUrl \o <<"#">> \o DocsAnchor(path)]

NoData == EndpointData(<<"/">>, <<>>, "none", <<>>, Undef, NoExample)

ExtractResult(ok, data, err) == [ok |-> ok, data |-> data, err |-> err]

\* The callback of _.mapValues(endpointsMarkdown, ...): the checks in the order
\* the code makes them.
ExtractEndpoint(nodes, endpoint) ==
    LET argumentsHeaderIndex == HeaderIndex(nodes, S_Arguments)
        intro == parseIntroNodes(Slice(nodes, 0, argumentsHeaderIndex))
        requestBodyIndex == HeaderIndex(nodes, S_RequestBody)
        responseIndex == HeaderIndex(nodes, S_Response)
        endOfArgumentsIndex ==
            IF requestBodyIndex # -1 THEN requestBodyIndex ELSE responseIndex
        argumentNodesCount == endOfArgumentsIndex - argumentsHeaderIndex - 1
        argumentNode ==
            IF argumentNodesCount # 0 /\ argumentsHeaderIndex + 2 <= Len(nodes)
            THEN nodes[argumentsHeaderIndex + 2]
            ELSE NoNode
        args == parseArguments(argumentNode)
        requestBodyNodes ==
            IF requestBodyIndex # -1
            THEN Slice(nodes, requestBodyIndex + 1, responseIndex)
            ELSE <<>>
        requestBodyText == Trim(getRawMarkdown(requestBodyNodes))
        requestBodyDescription ==
            IF Len(requestBodyText) > 0 THEN Str(requestBodyText) ELSE Undef
        endIndex == HeaderIndex(nodes, S_cURLExample)
        response == parseResponseInfo(Slice(nodes, responseIndex + 1, endIndex))
    IN  IF argumentsHeaderIndex = -1
        THEN ExtractResult(FALSE, NoData, "No arguments header found")
        ELSE IF ~intro.ok THEN ExtractResult(FALSE, NoData, intro.err)
        ELSE IF responseIndex = -1
        THEN ExtractResult(FALSE, NoData, "No response header found")
        ELSE IF argumentNodesCount > 1
        THEN ExtractResult(FALSE, NoData, "Unexpected argument node length")
        ELSE IF ~args.ok THEN ExtractResult(FALSE, NoData, args.err)
        ELSE IF endIndex = -1 THEN ExtractResult(FALSE, NoData, "No end header found")
        ELSE IF ~response.ok THEN ExtractResult(FALSE, NoData, response.err)
        ELSE ExtractResult(TRUE,
                           EndpointData(endpoint, intro.description, intro.warning,
                                        args.params, requestBodyDescription,
                                        response.example),
                           "")

(***************************************************************************)
(* Step 3: the OpenAPI operation of one endpoint.                          *)
(***************************************************************************)
Operation(endpoint) ==
    LET parameters ==
            [i \in 1..Len(endpoint.parameters) |-> ParameterObject(endpoint.parameters[i])]
    IN  [ok |-> \A i \in 1..Len(parameters) : parameters[i].ok,
         operationId |-> endpoint.path,
         description |-> endpoint.description,
         externalDocs |-> endpoint.docsUrl,
         deprecated |-> IF endpoint.warning = "deprecated" THEN Bool(TRUE) ELSE Undef,
         experimental |-> IF endpoint.warning = "experimental" THEN Bool(TRUE) ELSE Undef,
         parameters |-> parameters,
         requestBody |-> IF Truthy(endpoint.requestBodyDescription)
                         THEN endpoint.requestBodyDescription
                         ELSE Undef,
         example |-> IF JsonTruthy(endpoint.responseBodyExample)
                     THEN endpoint.responseBodyExample
                     ELSE NoExample]

(***************************************************************************)
(* The documents of the model.  Every top-level node gets its source       *)
(* lines and its position; a blank line separates two nodes.               *)
(***************************************************************************)
Heading(depth, ctype, value) == Node("heading", depth, ctype, value, <<>>)

Paragraph(ctype, value) == Node("paragraph", 0, ctype, value, <<>>)

Code(value) == Node("code", 0, "", value, <<>>)

SourceOf(node) ==
    CASE node.type = "heading" ->
            <<(IF node.depth = 2 THEN <<"##", " ">> ELSE <<"###", " ">>) \o node.value>>
      [] node.type = "code" -> <<(<<"~~~">>), node.value, (<<"~~~">>)>>
      [] node.type = "list" ->
            IF Len(node.items) = 0 THEN <<(<<"-">>)>>
            ELSE [i \in 1..Len(node.items) |-> <<"-", " ">> \o node.items[i].name]
      [] OTHER -> <<node.value>>

RECURSIVE Layout(_, _)
Layout(nodes, line) ==
    IF Len(nodes) = 0 THEN [nodes |-> <<>>, text |-> <<>>]
    ELSE LET src == SourceOf(nodes[1])
             placed == [nodes[1] EXCEPT !.position =
                           Position(Point(line, 1),
                                    Point(line + Len(src) - 1, Len(src[Len(src)]) + 1))]
             rest == Layout(Tail(nodes), line + Len(src) + 1)
         IN  [nodes |-> <<placed>> \o rest.nodes,
              text |-> src \o (IF Len(nodes) > 1 THEN <<(<<>>)>> ELSE <<>>) \o rest.text]

EndpointNames == <<"add", "cat", "ls", "id", "get">>

PathOf(k) == <<"/", "api", "/", "v0", "/", EndpointNames[k]>>

StartHeader == Heading(2, "text", S_RPCCommands)

\* Nodes for the documents that follow no convention.
FreeNodes ==
    { Heading(2, "text", PathOf(1)),
      Heading(2, "text", PathOf(2)),
      Heading(2, "text", <<"Other", " ", "/", "api", "/">>),
      Heading(3, "text", PathOf(1)),
      Heading(2, "inlineCode", PathOf(1)),
      Paragraph("text", <<"Add", " ", "a", " ", "file", ".">>) }

FreeDocuments == SeqsUpTo(FreeNodes, MaxNodes)

QuietItem ==
    ListItem(<<"paragraph">>, "inlineCode", <<"quiet">>, <<"text">>,
             Definition(TRUE, "bool", <<"Write", " ", "minimal", " ", "output", ".">>,
                        <<S_false>>, <<"no">>))

S_HashObject == <<"{", "\"Hash\":\"string\"", "}">>

Description == Paragraph("text", <<"Add", " ", "a", " ", "file", ".">>)

ArgumentsHeading == Heading(3, "text", S_Arguments)
RequestBodyHeading == Heading(3, "text", S_RequestBody)
ResponseHeading == Heading(3, "text", S_Response)
CurlHeading == Heading(3, "text", S_cURLExample)
ResponseIntro == Paragraph("text", S_ResponseIntro)
BodyText == Paragraph("text", <<"The", " ", "file", " ", "to", " ", "add", ".">>)
CurlCode == Code(<<"curl -X POST">>)

\* The endpoint of the end-to-end example.
WellFormedSlice ==
    <<Description, ArgumentsHeading, ListNode(<<QuietItem>>),
      ResponseHeading, ResponseIntro, Code(S_HashObject), CurlHeading, CurlCode>>

\* No arguments, a request body, a text/plain response.
PlainSlice ==
    <<Description, ArgumentsHeading, Paragraph("text", S_NoArguments),
      RequestBodyHeading, BodyText,
      ResponseHeading, ResponseIntro, Code(S_TextPlain), CurlHeading, CurlCode>>

NoResponseSlice ==
    <<Description, ArgumentsHeading, ListNode(<<QuietItem>>), CurlHeading, CurlCode>>

TwoArgumentNodesSlice ==
    <<Description, ArgumentsHeading, ListNode(<<QuietItem>>), Description,
      ResponseHeading, ResponseIntro, Code(S_HashObject), CurlHeading, CurlCode>>

TwoArgumentNodesBodySlice ==
    <<Description, ArgumentsHeading, ListNode(<<QuietItem>>), Description,
      RequestBodyHeading, BodyText,
      ResponseHeading, ResponseIntro, Code(S_HashObject), CurlHeading, CurlCode>>

Slices ==
    {WellFormedSlice, PlainSlice, NoResponseSlice, TwoArgumentNodesSlice,
     TwoArgumentNodesBodySlice}

\* k endpoint sections with distinct paths, in order.
RECURSIVE Sections(_, _)
Sections(slices, k) ==
    IF k > Len(slices) THEN <<>>
    ELSE <<Heading(2, "text", PathOf(k))>> \o slices[k] \o Sections(slices, k + 1)

EndpointDocuments == {Sections(c, 1) : c \in SeqsUpTo(Slices, MaxEndpoints)}

Title == Node("heading", 1, "text", <<"Kubo RPC API">>, <<>>)

Documents ==
    { <<StartHeader>> \o body : body \in FreeDocuments \cup EndpointDocuments }
    \cup { <<Title, Description, StartHeader>> \o body :
             body \in {d \in EndpointDocuments : Len(d) <= Len(WellFormedSlice) + 1} }
    \cup { <<>>, <<Title>>, <<Title, Heading(2, "text", PathOf(1))>> \o WellFormedSlice }

(***************************************************************************)
(* The script, from the parsed text to the written file.                   *)
(***************************************************************************)
Init ==
    /\ \E d \in Documents :
          /\ markdownAST = Layout(d, 1).nodes
          /\ markdownText = Layout(d, 1).text
    /\ flatAST = <<>>
    /\ idx = 0
    /\ endpointsMarkdown = <<>>
    /\ currentEndpointPath = Undef
    /\ currentEndpointContent = <<>>
    /\ endpointData = <<>>
    /\ pc = "start"
    /\ error = ""
    /\ output = NoOutput
    /\ input = <<>>
    /\ result = <<>>

Throw(err) ==
    /\ pc' = "failed"
    /\ error' = err

\* Lines 18-32: find the start header, keep what follows it.
FindStart ==
    /\ pc = "start"
    /\ LET endpointStartHeader ==
            FindIndex([i \in 1..Len(markdownAST) |-> IsStartHeader(markdownAST[i])])
       IN
        IF endpointStartHeader = -1
        THEN /\ Throw("Could not find start of endpoint headers")
             /\ UNCHANGED <<flatAST, idx>>
        ELSE /\ flatAST' = Slice(markdownAST, endpointStartHeader + 1, Len(markdownAST))
             /\ idx' = 1
             /\ pc' = "segment"
             /\ UNCHANGED error
    /\ UNCHANGED <<markdownText, markdownAST, endpointsMarkdown, currentEndpointPath,
                   currentEndpointContent, endpointData, output, input, result>>

\* Lines 48-55: a boundary stores the finished endpoint and starts the next.
SegmentBoundary ==
    /\ pc = "segment"
    /\ idx <= Len(flatAST)
    /\ IsBoundary(flatAST[idx])
    /\ IF Truthy(currentEndpointPath)
       THEN /\ endpointsMarkdown' =
                  MapSet(endpointsMarkdown, currentEndpointPath.s, currentEndpointContent)
            /\ currentEndpointContent' = <<>>
       ELSE UNCHANGED <<endpointsMarkdown, currentEndpointContent>>
    /\ currentEndpointPath' = Str(flatAST[idx].value)
    /\ idx' = idx + 1
    /\ UNCHANGED <<markdownText, markdownAST, flatAST, endpointData, pc, error, output,
                   input, result>>

\* Lines 56-59: content before the first boundary.
SegmentThrow ==
    /\ pc = "segment"
    /\ idx <= Len(flatAST)
    /\ ~IsBoundary(flatAST[idx])
    /\ ~Truthy(currentEndpointPath)
    /\ Throw("Couldn't find first endpoint header")
    /\ UNCHANGED <<markdownText, markdownAST, flatAST, idx, endpointsMarkdown,
                   currentEndpointPath, currentEndpointContent, endpointData, output,
                   input, result>>

\* Lines 60-62: content of the current endpoint.
SegmentPush ==
    /\ pc = "segment"
    /\ idx <= Len(flatAST)
    /\ ~IsBoundary(flatAST[idx])
    /\ Truthy(currentEndpointPath)
    /\ currentEndpointContent' = Append(currentEndpointContent, flatAST[idx])
    /\ idx' = idx + 1
    /\ UNCHANGED <<markdownText, markdownAST, flatAST, endpointsMarkdown,
                   currentEndpointPath, endpointData, pc, error, output, input, result>>

\* The loop ends; nothing follows it but step 2.
SegmentEnd ==
    /\ pc = "segment"
    /\ idx > Len(flatAST)
    /\ pc' = "extract"
    /\ UNCHANGED <<markdownText, markdownAST, flatAST, idx, endpointsMarkdown,
                   currentEndpointPath, currentEndpointContent, endpointData, error,
                   output, input, result>>

\* Lines 318-364: the next entry of endpointsMarkdown, in insertion order.
ExtractNext ==
    /\ pc = "extract"
    /\ Len(endpointData) < Len(endpointsMarkdown)
    /\ LET entry == endpointsMarkdown[Len(endpointData) + 1]
           r == ExtractEndpoint(entry.value, entry.key)
       IN  IF r.ok
           THEN /\ endpointData' = Append(endpointData, [key |-> entry.key, value |-> r.data])
                /\ UNCHANGED <<pc, error>>
           ELSE /\ Throw(r.err)
                /\ UNCHANGED endpointData
    /\ UNCHANGED <<markdownText, markdownAST, flatAST, idx, endpointsMarkdown,
                   currentEndpointPath, currentEndpointContent, output, input, result>>

\* Lines 394-460: spec.paths, one post operation per endpoint.
BuildSpec ==
    /\ pc = "extract"
    /\ Len(endpointData) = Len(endpointsMarkdown)
    /\ LET paths == [i \in 1..Len(endpointData) |->
                        [key |-> endpointData[i].key,
                         post |-> Operation(endpointData[i].value)]]
       IN  IF \E i \in 1..Len(paths) : ~paths[i].post.ok
           THEN /\ Throw("Could not convert parameter type")
                /\ UNCHANGED result
           ELSE /\ result' = paths
                /\ pc' = "writeFile"
                /\ UNCHANGED error
    /\ UNCHANGED <<markdownText, markdownAST, flatAST, idx, endpointsMarkdown,
                   currentEndpointPath, currentEndpointContent, endpointData, output, input>>

\* Line 462
WriteFile ==
    /\ pc = "writeFile"
    /\ output' = [written |-> TRUE, paths |-> result]
    /\ pc' = "done"
    /\ UNCHANGED <<markdownText, markdownAST, flatAST, idx, endpointsMarkdown,
                   currentEndpointPath, currentEndpointContent, endpointData, error,
                   input, result>>

Next ==
    \/ FindStart
    \/ SegmentBoundary
    \/ SegmentThrow
    \/ SegmentPush
    \/ SegmentEnd
    \/ ExtractNext
    \/ BuildSpec
    \/ WriteFile

Spec == Init /\ [][Next]_vars

(***************************************************************************)
(* Properties of the script (checked under Spec).                          *)
(***************************************************************************)
Segmented == pc \in {"extract", "writeFile", "done"}

\* Indices of flatAST that hold an endpoint boundary heading.
Boundaries == {i \in 1..Len(flatAST) : IsBoundary(flatAST[i])}

\* The k-th smallest element of a set of numbers.
RECURSIVE Nth(_, _)
Nth(S, k) ==
    LET m == CHOOSE x \in S : \A y \in S : x <= y
    IN  IF k = 1 THEN m ELSE Nth(S \ {m}, k - 1)

\* The nodes between the boundary at index b and the next boundary or the end.
SliceOf(b) ==
    LET later == {i \in Boundaries : i > b}
        stop == IF later = {} THEN Len(flatAST) + 1 ELSE Nth(later, 1)
    IN  SubSeq(flatAST, b + 1, stop - 1)

DistinctPaths ==
    \A i, j \in Boundaries : flatAST[i].value = flatAST[j].value => i = j

\* C1: once the segmentation loop has ended, the mapping holds one entry per
\* boundary heading, in order, the last boundary included, and every entry's slice
\* is the run of nodes from its heading to the next boundary (or the end of input).
C1_SegmentationComplete ==
    (Segmented /\ DistinctPaths) =>
        /\ Len(endpointsMarkdown) = Cardinality(Boundaries)
        /\ \A k \in 1..Len(endpointsMarkdown) :
              /\ endpointsMarkdown[k].key = flatAST[Nth(Boundaries, k)].value
              /\ endpointsMarkdown[k].value = SliceOf(Nth(Boundaries, k))

HasHeading(nodes, text) ==
    \E i \in 1..Len(nodes) :
        nodes[i].type = "heading" /\ nodes[i].depth = 3 /\ nodes[i].ctype = "text"
            /\ nodes[i].value = text

\* 1-based index of the first level-3 heading with the text; 0 if none.
RECURSIVE HeadingAt(_, _, _)
HeadingAt(nodes, text, i) ==
    IF i > Len(nodes) THEN 0
    ELSE IF HasHeading(<<nodes[i]>>, text) THEN i
    ELSE HeadingAt(nodes, text, i + 1)

\* More than one node between the Arguments heading and the next section heading.
CrowdedArguments(nodes) ==
    LET next == IF HasHeading(nodes, S_RequestBody)
                THEN HeadingAt(nodes, S_RequestBody, 1)
                ELSE HeadingAt(nodes, S_Response, 1)
    IN  /\ HasHeading(nodes, S_Arguments)
        /\ next # 0
        /\ next - HeadingAt(nodes, S_Arguments, 1) - 1 > 1

Deviant(nodes) == ~HasHeading(nodes, S_Response) \/ CrowdedArguments(nodes)

\* C2: when an endpoint of the document, the last one included, has no Response
\* heading or more than one node in its Arguments region, the run fails and the
\* file is never written.
C2_FatalOnDeviation ==
    (pc = "done" \/ output.written) => \A b \in Boundaries : ~Deviant(SliceOf(b))

\* C7: the run fails and nothing is written when a node that is no boundary
\* comes before the first boundary, and when the nodes after the start header
\* hold no boundary at all, the empty sequence included.
C7_SegmenterFailure ==
    (pc = "done" \/ output.written) =>
        /\ Boundaries # {}
        /\ IsBoundary(flatAST[1])

Strip(nodes) == [i \in 1..Len(nodes) |-> [nodes[i] EXCEPT !.position = NoPosition]]

PathEntries(path) == {i \in 1..Len(output.paths) : output.paths[i].key = path}

\* C8: the written file holds, for every well-formed endpoint section of the
\* document (also the only one or the last one), exactly one post operation keyed
\* by the section's path, with that operationId, one boolean parameter with
\* default false and no `required`, and the parsed object as the 200 example.
C8_EndToEnd ==
    output.written =>
        \A b \in Boundaries :
            (DistinctPaths /\ Strip(SliceOf(b)) = WellFormedSlice) =>
                /\ Cardinality(PathEntries(flatAST[b].value)) = 1
                /\ LET op == output.paths[CHOOSE i \in PathEntries(flatAST[b].value) : TRUE].post
                   IN  /\ op.operationId = flatAST[b].value
                       /\ Len(op.parameters) = 1
                       /\ op.parameters[1].name = <<"quiet">>
                       /\ op.parameters[1].schema.type = "boolean"
                       /\ op.parameters[1].schema.default = Bool(FALSE)
                       /\ op.parameters[1].required = Undef
                       /\ op.example = JsonOf(TRUE, "object", S_HashObject)

(***************************************************************************)
(* Step 2 and what follows it, on one endpoint: the script starts with one *)
(* entry in endpointsMarkdown.  The slices vary the intro paragraphs, the  *)
(* nodes of the Response region, and the order of the section headings.    *)
(***************************************************************************)
IntroParagraphs ==
    { Paragraph("text", S_Deprecated),
      Paragraph("text", S_Experimental),
      Paragraph("text", <<":::", " ", "tip">>),
      Paragraph("text", S_WarningEnd),
      Description,
      Paragraph("strong", <<"Note">>) }

IntroSlices ==
    { intro \o Tail(WellFormedSlice) : intro \in SeqsUpTo(IntroParagraphs, MaxIntro) }

ResponseCodes ==
    { S_TextPlain, S_HashObject, <<"{", "}">>, <<"[", "\"a\"", ",", "\"a\"", "]">>,
      <<"12">>, <<"0">>, <<"\"text\"">>, <<"\"\"">>, <<"true">>, <<"false">>, <<"null">>,
      <<"{", "\"a\"">>, <<"Not JSON">> }

ResponseNodes ==
    { ResponseIntro, Description, Paragraph("strong", S_ResponseIntro) }
        \cup { Code(c) : c \in ResponseCodes }

ResponseSlices ==
    { <<Description, ArgumentsHeading, ListNode(<<QuietItem>>), ResponseHeading>>
          \o region \o <<CurlHeading, CurlCode>> :
        region \in SeqsUpTo(ResponseNodes, MaxResponseNodes) }

Sentinels == {S_Arguments, S_RequestBody, S_Response, S_cURLExample}

\* The nodes that the convention puts after a section heading.
Fitted(text) ==
    CASE text = S_Arguments -> <<ListNode(<<QuietItem>>)>>
      [] text = S_RequestBody -> <<BodyText>>
      [] text = S_Response -> <<ResponseIntro, Code(S_HashObject)>>
      [] OTHER -> <<CurlCode>>

\* The headings in the given order, each followed by its nodes or by nothing:
\* a section is a heading text and whether its nodes follow.
RECURSIVE Arrange(_)
Arrange(sections) ==
    IF Len(sections) = 0 THEN <<>>
    ELSE <<Heading(3, "text", sections[1][1])>>
            \o (IF sections[1][2] THEN Fitted(sections[1][1]) ELSE <<>>)
            \o Arrange(Tail(sections))

OrderSlices ==
    { <<Description>> \o Arrange(sections) :
        sections \in SeqsUpTo(Sentinels \X BOOLEAN, MaxHeadings) }

ExtractSlices == IntroSlices \cup ResponseSlices \cup OrderSlices

InitExtract ==
    /\ \E s \in ExtractSlices :
          /\ endpointsMarkdown = <<[key |-> PathOf(1), value |-> Layout(s, 1).nodes]>>
          /\ markdownText = Layout(s, 1).text
    /\ markdownAST = <<>>
    /\ flatAST = <<>>
    /\ idx = 0
    /\ currentEndpointPath = Undef
    /\ currentEndpointContent = <<>>
    /\ endpointData = <<>>
    /\ pc = "extract"
    /\ error = ""
    /\ output = NoOutput
    /\ input = <<>>
    /\ result = <<>>

NextExtract ==
    \/ ExtractNext
    \/ BuildSpec
    \/ WriteFile

SpecExtract == InitExtract /\ [][NextExtract]_vars

(***************************************************************************)
(* Properties of the extraction of one endpoint (checked under             *)
(* SpecExtract).                                                           *)
(***************************************************************************)
TheSlice == endpointsMarkdown[1].value

RecordProduced == Len(endpointData) = 1

TheRecord == endpointData[1].value

\* First occurrences of the section headings, 1-based; 0 for none.
ArgumentsAt == HeadingAt(TheSlice, S_Arguments, 1)
RequestBodyAt == HeadingAt(TheSlice, S_RequestBody, 1)
ResponseAt == HeadingAt(TheSlice, S_Response, 1)
CurlAt == HeadingAt(TheSlice, S_cURLExample, 1)

InOrder ==
    /\ ArgumentsAt > 0
    /\ ResponseAt > ArgumentsAt
    /\ CurlAt > ResponseAt
    /\ RequestBodyAt > 0 => (ArgumentsAt < RequestBodyAt /\ RequestBodyAt < ResponseAt)

ResponseRegion == SubSeq(TheSlice, ResponseAt + 1, CurlAt - 1)

ExactShape(region) ==
    /\ Len(region) = 2
    /\ region[1].type = "paragraph"
    /\ region[1].ctype = "text"
    /\ region[1].value = S_ResponseIntro
    /\ region[2].type = "code"

\* C11: a record is produced for a slice with its headings in order only when
\* the Response region is exactly the introductory paragraph and a code block;
\* its example is absent when the code is the text/plain sentence, and otherwise
\* the parsed code, which is an object or an array: invalid JSON and JSON scalars
\* are fatal, and so is any other count or shape of the region.
C11_ResponseOutcome ==
    (RecordProduced /\ InOrder) =>
        /\ ExactShape(ResponseRegion)
        /\ LET code == ResponseRegion[2].value
               example == TheRecord.responseBodyExample
           IN  IF code = S_TextPlain
               THEN example = NoExample
               ELSE example = JSONParse(code) /\ example.kind \in {"object", "array"}

\* The nodes in front of the Arguments heading.
IntroRegion == SubSeq(TheSlice, 1, ArgumentsAt - 1)

AllParagraphs(nodes) == \A i \in 1..Len(nodes) : nodes[i].type = "paragraph"

LeadingText(node) == IF node.ctype = "text" THEN node.value ELSE <<>>

IsMarker(node) == Len(LeadingText(node)) > 0 /\ LeadingText(node)[1] = ":::"

\* 1-based index of the first paragraph whose text is the terminator; 0 for none.
RECURSIVE TerminatorAt(_, _)
TerminatorAt(nodes, i) ==
    IF i > Len(nodes) THEN 0
    ELSE IF LeadingText(nodes[i]) = S_WarningEnd THEN i
    ELSE TerminatorAt(nodes, i + 1)

\* The marker paragraphs end with the terminator, or are the opening one alone.
MarkerEnd(nodes) == IF TerminatorAt(nodes, 1) > 0 THEN TerminatorAt(nodes, 1) ELSE 1

\* The source lines of nodes that a blank line separates.
RECURSIVE LinesOf(_)
LinesOf(nodes) ==
    IF Len(nodes) = 0 THEN <<>>
    ELSE SourceOf(nodes[1]) \o (IF Len(nodes) > 1 THEN <<(<<>>)>> ELSE <<>>)
            \o LinesOf(Tail(nodes))

RECURSIVE Unlines(_)
Unlines(lines) ==
    IF Len(lines) = 0 THEN <<>>
    ELSE IF Len(lines) = 1 THEN lines[1]
    ELSE lines[1] \o <<"\n">> \o Unlines(Tail(lines))

\* The source text of the nodes.
Verbatim(nodes) == Unlines(LinesOf(nodes))

WarningFor(text) ==
    IF text = S_Deprecated THEN "deprecated"
    ELSE IF text = S_Experimental THEN "experimental"
    ELSE "other"

\* C12: for an intro of paragraphs, a record whose first intro paragraph reads
\* "::: warning DEPRECATED" or "::: warning EXPERIMENTAL" carries that warning and
\* a description without the marker paragraphs; no record is produced when the
\* first paragraph carries another ":::" marker; and a record without a warning
\* has an intro without a leading marker, its description being the verbatim text
\* of all intro paragraphs.
C12_IntroWarning ==
    (RecordProduced /\ InOrder /\ AllParagraphs(IntroRegion)) =>
        LET intro == IntroRegion
            marked == Len(intro) > 0 /\ IsMarker(intro[1])
        IN  /\ marked =>
                  /\ WarningFor(LeadingText(intro[1])) # "other"
                  /\ TheRecord.warning = WarningFor(LeadingText(intro[1]))
                  /\ TheRecord.description =
                         Verbatim(SubSeq(intro, MarkerEnd(intro) + 1, Len(intro)))
            /\ TheRecord.warning = "none" =>
                  /\ ~marked
                  /\ TheRecord.description = Verbatim(intro)

\* The nodes between the Arguments heading and the section that follows it.
ArgumentsRegion ==
    SubSeq(TheSlice, ArgumentsAt + 1,
           (IF RequestBodyAt > 0 THEN RequestBodyAt ELSE ResponseAt) - 1)

RequestBodyRegion == SubSeq(TheSlice, RequestBodyAt + 1, ResponseAt - 1)

\* Every part of the record comes from the region of its own heading.
Attributed ==
    /\ TheRecord.description =
           Verbatim(SubSeq(IntroRegion, TerminatorAt(IntroRegion, 1) + 1, Len(IntroRegion)))
    /\ Len(ArgumentsRegion) <= 1
    /\ TheRecord.parameters =
           IF Len(ArgumentsRegion) = 0 THEN <<>>
           ELSE parseArguments(ArgumentsRegion[1]).params
    /\ TheRecord.requestBodyDescription =
           IF RequestBodyAt = 0 \/ Len(RequestBodyRegion) = 0 THEN Undef
           ELSE Str(Verbatim(RequestBodyRegion))
    /\ ExactShape(ResponseRegion)
    /\ ResponseRegion[2].value \in {S_TextPlain, TheRecord.responseBodyExample.text}

\* C13: a record is produced only for a slice whose first Arguments, Request Body
\* (when present), Response and cURL Example headings come in that order, and it
\* is built from the regions of those headings; a slice that misses Arguments,
\* Response or cURL Example, or has the headings in another order, ends the run
\* with an error and nothing is written.
C13_SentinelOrder ==
    /\ RecordProduced => (InOrder /\ Attributed)
    /\ ~InOrder => (pc \in {"extract", "failed"} /\ ~output.written)

\* A record from a slice with all four headings, the Request Body included.
C13_Witness ==
    /\ output.written
    /\ RecordProduced
    /\ RequestBodyAt > 0
    /\ TheRecord.requestBodyDescription # Undef

====
